---------------------------- MODULE Spec2Model ----------------------------
(***************************************************************************)
(* A model of the sanhedrin task orchestration core:                       *)
(*   - TaskStateMachine   (src/src/sanhedrin/core/state_machine.py)        *)
(*   - TaskManager        (src/src/sanhedrin/server/task_manager.py)       *)
(*   - JSONRPCHandler     (src/src/sanhedrin/server/handlers/              *)
(*                         jsonrpc_handler.py) behind the routes of        *)
(*                         src/src/sanhedrin/server/app.py                 *)
(*   - AgentCatalog       (src/src/sanhedrin/orchestration/catalog.py)     *)
(*   - the routing strategies and AgentRouter                              *)
(*                        (src/src/sanhedrin/orchestration/router.py)      *)
(*                                                                         *)
(* Eight specifications share the module.  SpecSM drives one stand-alone   *)
(* TaskStateMachine through transition_to / force_transition.  Spec        *)
(* drives a TaskManager: create_task, execute_task (an async generator,    *)
(* one action per stretch of code between two suspension points),          *)
(* execute_task_sync, cancel_task and cleanup_completed, interleaved the   *)
(* way the asyncio event loop can interleave them.  SpecRPC drives the     *)
(* same TaskManager through the JSON-RPC requests of its clients.          *)
(* SpecCatalog drives an AgentCatalog through register, unregister and     *)
(* health_check_all.  SpecSelect drives one instance of every routing      *)
(* strategy over a fixed list of candidates.  SpecRouter drives an         *)
(* AgentRouter over a catalog that register and unregister change.         *)
(* SpecStream drives execute_task under provider streams whose chunks      *)
(* carry different texts and logs the chunks taken.  SpecLive is the       *)
(* TaskManager under weak fairness of every started execution's steps.     *)
(*                                                                         *)
(* The TaskManager reaches its state machines through the names            *)
(* can_transition / transition and reads status.updated_at; they are       *)
(* modelled as the state machine's validated operations can_transition_to  *)
(* / transition_to and as a last-update time kept with the status.  The    *)
(* handler builds its responses with JSONRPCResponse(...) and reads        *)
(* status.created_at and state.value; these are modelled as the success    *)
(* response and the serialized task they stand for.                        *)
(***************************************************************************)
EXTENDS Integers, Sequences, FiniteSets, TLC

VARIABLES
    sm,              \* SpecSM: the stand-alone TaskStateMachine
    ret,             \* what the most recent call returned or raised
    now,             \* the clock read by utc_now()
    objects,         \* every Task object allocated so far, by task id
    tasks,           \* keys of TaskManager._tasks (ids whose object is stored)
    state_machines,  \* TaskManager._state_machines
    contexts,        \* TaskManager._contexts
    execs,           \* the execute_task / execute_task_sync calls started so far
    provider_calls,  \* how many times the adapter was invoked, per task id
    consumed,        \* SpecStream: the chunks each execute_task has taken
    _agents,         \* AgentCatalog._agents: name -> AgentEntry
    _agents_keys,    \* the keys of _agents in the order the dict holds them
    _skill_index,    \* AgentCatalog._skill_index: skill id -> agent names
    _tag_index,      \* AgentCatalog._tag_index: tag -> agent names
    initialized,     \* the adapters whose _initialized flag is set
    registering,     \* the register calls awaiting adapter.initialize()
    health_call,     \* the health_check_all call in progress, if any
    agents,          \* the list of candidates handed to the strategies
    _strategy,       \* AgentRouter._strategy
    _routers,        \* AgentRouter._routers: strategy -> its instance
    selections       \* what the strategies that keep state have selected

catvars == <<_agents, _agents_keys, _skill_index, _tag_index, initialized,
             registering, health_call>>

rtvars == <<agents, _strategy, _routers, selections>>

vars == <<sm, ret, now, objects, tasks, state_machines, contexts, execs,
          provider_calls, consumed, catvars, rtvars>>

tmvars == <<now, objects, tasks, state_machines, contexts, execs,
            provider_calls, consumed>>

-----------------------------------------------------------------------------
(* Bounds of the model *)

MaxHistory == 3

-----------------------------------------------------------------------------
(* core/types.py: TaskState *)

SUBMITTED == "submitted"
WORKING == "working"
INPUT_REQUIRED == "input-required"
COMPLETED == "completed"
CANCELED == "canceled"
FAILED == "failed"
REJECTED == "rejected"
AUTH_REQUIRED == "auth-required"
UNKNOWN == "unknown"

TaskState ==
    {SUBMITTED, WORKING, INPUT_REQUIRED, COMPLETED, CANCELED, FAILED,
     REJECTED, AUTH_REQUIRED, UNKNOWN}

-----------------------------------------------------------------------------
(* core/state_machine.py *)

\* variant: a canceled task may be resumed
VALID_TRANSITIONS_reopen ==
    [s \in TaskState |->
        CASE s = SUBMITTED -> {WORKING, COMPLETED, FAILED, REJECTED, CANCELED}
          [] s = WORKING -> {COMPLETED, FAILED, CANCELED, INPUT_REQUIRED,
                             AUTH_REQUIRED}
          [] s = INPUT_REQUIRED -> {WORKING, COMPLETED, FAILED, CANCELED}
          [] s = AUTH_REQUIRED -> {WORKING, FAILED, CANCELED}
          [] s = CANCELED -> {WORKING}
          [] OTHER -> {}]

\* variant: WORKING may be entered again from WORKING
VALID_TRANSITIONS_rework ==
    [s \in TaskState |->
        CASE s = SUBMITTED -> {WORKING, COMPLETED, FAILED, REJECTED, CANCELED}
          [] s = WORKING -> {WORKING, COMPLETED, FAILED, CANCELED,
                             INPUT_REQUIRED, AUTH_REQUIRED}
          [] s = INPUT_REQUIRED -> {WORKING, COMPLETED, FAILED, CANCELED}
          [] s = AUTH_REQUIRED -> {WORKING, FAILED, CANCELED}
          [] OTHER -> {}]

VALID_TRANSITIONS ==
    [s \in TaskState |->
        CASE s = SUBMITTED -> {WORKING, COMPLETED, FAILED, REJECTED, CANCELED}
          [] s = WORKING -> {COMPLETED, FAILED, CANCELED, INPUT_REQUIRED,
                             AUTH_REQUIRED}
          [] s = INPUT_REQUIRED -> {WORKING, COMPLETED, FAILED, CANCELED}
          [] s = AUTH_REQUIRED -> {WORKING, FAILED, CANCELED}
          [] OTHER -> {}]

TERMINAL_STATES == {COMPLETED, FAILED, CANCELED, REJECTED}

ACTIVE_STATES == {SUBMITTED, WORKING}

WAITING_STATES == {INPUT_REQUIRED, AUTH_REQUIRED}

\* reason=None and the reasons a caller passes; one of them starts with the
\* text force_transition puts before its reason
NoReason == "None"
Reasons == {NoReason, "retry", "[FORCED] "}

StateTransitionRecord(from_state, to_state, reason) ==
    [from_state |-> from_state, to_state |-> to_state, reason |-> reason]

\* self.history.append(record)
RecordTransition(m, from_state, to_state, reason) ==
    [m EXCEPT !.history =
        Append(@, StateTransitionRecord(from_state, to_state, reason))]

\* TaskStateMachine(current_state=s): __post_init__ records the initial state
TaskStateMachine(s) ==
    RecordTransition([current_state |-> s, history |-> <<>>],
                     UNKNOWN, s, "Initial state")

\* variant: no validation
can_transition_to_any(m, target_state) == TRUE

can_transition_to(m, target_state) ==
    target_state \in VALID_TRANSITIONS[m.current_state]

\* the body of transition_to once the check has passed
transition_to(m, target_state, reason) ==
    RecordTransition([m EXCEPT !.current_state = target_state],
                     m.current_state, target_state, reason)

\* variant: the reason is recorded as the caller gave it
ForcedReason_plain(reason) ==
    IF reason = NoReason THEN "" ELSE reason

\* f"[FORCED] {reason or ''}"
ForcedReason(reason) ==
    "[FORCED] " \o (IF reason = NoReason THEN "" ELSE reason)

force_transition(m, target_state, reason) ==
    RecordTransition([m EXCEPT !.current_state = target_state],
                     m.current_state, target_state, ForcedReason(reason))

\* the properties is_terminal, is_active and is_waiting
is_terminal(m) == m.current_state \in TERMINAL_STATES

is_active(m) == m.current_state \in ACTIVE_STATES

is_waiting(m) == m.current_state \in WAITING_STATES

-----------------------------------------------------------------------------
(* SpecSM: one TaskStateMachine under arbitrary calls *)

NoRet == [op |-> "none"]

\* no health_check_all call is in progress
NoHealthCall == [active |-> FALSE]

\* AgentCatalog.__init__
CatalogInit ==
    /\ health_call = NoHealthCall
    /\ _agents = <<>>
    /\ _agents_keys = <<>>
    /\ _skill_index = <<>>
    /\ _tag_index = <<>>
    /\ initialized = {}
    /\ registering = {}

\* RoutingStrategy
ROUND_ROBIN == "round_robin"
SKILL_MATCH == "skill_match"
FIRST_AVAILABLE == "first_available"
WEIGHTED == "weighted"
RANDOM == "random"

\* AgentRouter.__init__ with the default strategy; no candidates are at hand
RouterInit ==
    /\ agents = <<>>
    /\ _strategy = SKILL_MATCH
    /\ _routers = <<>>
    /\ selections = <<>>

StoreInit ==
    /\ now = 0
    /\ objects = <<>>
    /\ tasks = {}
    /\ state_machines = <<>>
    /\ contexts = <<>>
    /\ execs = <<>>
    /\ provider_calls = <<>>
    /\ consumed = <<>>

TMInitVars ==
    /\ CatalogInit
    /\ RouterInit
    /\ StoreInit

\* create_state_machine(initial_state)
InitSM ==
    /\ \E s \in TaskState : sm = TaskStateMachine(s)
    /\ ret = NoRet
    /\ TMInitVars

SMTransitionTo(target_state, reason) ==
    /\ Len(sm.history) < MaxHistory
    /\ IF can_transition_to(sm, target_state)
       THEN /\ sm' = transition_to(sm, target_state, reason)
            /\ ret' = [op |-> "transition_to", target |-> target_state,
                       result |-> "ok", state |-> target_state]
       ELSE /\ sm' = sm
            /\ ret' = [op |-> "transition_to", target |-> target_state,
                       result |-> "InvalidStateTransitionError",
                       state |-> sm.current_state]
    /\ UNCHANGED <<tmvars, catvars, rtvars>>

SMForceTransition(target_state, reason) ==
    /\ Len(sm.history) < MaxHistory
    /\ sm' = force_transition(sm, target_state, reason)
    /\ ret' = [op |-> "force_transition", target |-> target_state,
               result |-> "ok", state |-> target_state]
    /\ UNCHANGED <<tmvars, catvars, rtvars>>

NextSM ==
    \/ \E t \in TaskState, r \in Reasons : SMTransitionTo(t, r)
    \/ \E t \in TaskState, r \in Reasons : SMForceTransition(t, r)

SpecSM == InitSM /\ [][NextSM]_vars

-----------------------------------------------------------------------------
(* Bounds and inputs of the TaskManager model *)

MaxTasks == 2
MaxExecs == 2
MaxTime == 1
MaxChunks == 1
MaxAge == 1
MaxContexts == 1

USER == "user"
AGENT == "agent"

Message(role, text) == [role |-> role, text |-> text]

NoMessage == Message("none", "")

\* the messages a client submits
InputMessages == {Message(USER, "q")}

\* context_id=None, and the context ids a client names (a second task
\* naming the same one continues that conversation)
NoContext == 0
CallerContexts == 1..MaxContexts

\* the context id generate_id() yields for the task with this id
GeneratedContext(task_id) == 100 + task_id

\* what the provider can deliver
Contents == {"", "a"}
ChunkTypes == {"text", "error", "metadata"}
StreamChunks == [content : Contents, is_final : BOOLEAN, chunk_type : ChunkTypes]
ProviderError == "boom"

-----------------------------------------------------------------------------
(* server/task_manager.py: the store *)

World == [objects |-> objects, tasks |-> tasks,
          state_machines |-> state_machines, contexts |-> contexts]

Outcome(W, exc) == [W |-> W, exc |-> exc]

TaskStatus(state, updated_at, message) ==
    [state |-> state, updated_at |-> updated_at, message |-> message]

Task(task_id, context_id, status, history, artifacts) ==
    [id |-> task_id, context_id |-> context_id, status |-> status,
     history |-> history, artifacts |-> artifacts]

Artifact(text) == [name |-> "response", text |-> text]

\* variant: every status event is flagged final
StatusEvent_final(task, final) ==
    [kind |-> "status-update", state |-> task.status.state, final |-> TRUE]

StatusEvent(task, final) ==
    [kind |-> "status-update", state |-> task.status.state, final |-> final]

ArtifactEvent(artifact) ==
    [kind |-> "artifact-update", artifact |-> artifact]

\* get_task: raises TaskNotFoundError unless the id is a key of _tasks
get_task_found(W, task_id) == task_id \in W.tasks

\* variant: the state machine is not consulted
transition_state_unchecked(W, task_id, new_state, message, t) ==
    IF ~(task_id \in W.tasks)
    THEN [W |-> W, exc |-> "TaskNotFoundError"]
    ELSE [W |-> [W EXCEPT
                   !.state_machines[task_id] =
                       transition_to(@, new_state, NoReason),
                   !.objects[task_id].status.state = new_state,
                   !.objects[task_id].status.updated_at = t],
          exc |-> "none"]

transition_state(W, task_id, new_state, message, t) ==
    IF ~get_task_found(W, task_id)
    THEN Outcome(W, "TaskNotFoundError")
    ELSE LET state_machine == W.state_machines[task_id]
             task == W.objects[task_id]
         IN  IF ~can_transition_to(state_machine, new_state)
             THEN Outcome(W, "InvalidStateTransitionError")
             ELSE Outcome(
                 [W EXCEPT
                    !.state_machines[task_id] =
                        transition_to(state_machine, new_state, NoReason),
                    !.objects[task_id].status.state = new_state,
                    !.objects[task_id].status.updated_at = t,
                    !.objects[task_id].history =
                        IF message # NoMessage THEN Append(@, message) ELSE @,
                    !.contexts[task.context_id] =
                        IF message # NoMessage THEN Append(@, message) ELSE @],
                 "none")

\* variant: a failure leaves the task and its state machine as they are
_fail_task_unheeded(W, task_id, error, t) ==
    IF ~(task_id \in W.tasks)
    THEN [W |-> W, exc |-> "TaskNotFoundError"]
    ELSE [W |-> W, exc |-> "none"]

\* variant: only the state machine is told of the failure
_fail_task_unmarked(W, task_id, error, t) ==
    IF ~(task_id \in W.tasks)
    THEN [W |-> W, exc |-> "TaskNotFoundError"]
    ELSE [W |-> [W EXCEPT
                   !.state_machines[task_id] =
                       IF FAILED \in VALID_TRANSITIONS[@.current_state]
                       THEN transition_to(@, FAILED, NoReason)
                       ELSE @],
          exc |-> "none"]

_fail_task(W, task_id, error, t) ==
    IF ~get_task_found(W, task_id)
    THEN Outcome(W, "TaskNotFoundError")
    ELSE LET state_machine == W.state_machines[task_id]
         IN  Outcome(
                 [W EXCEPT
                    !.objects[task_id].status =
                        TaskStatus(FAILED, t, Message(AGENT, "Error: " \o error)),
                    !.state_machines[task_id] =
                        IF can_transition_to(state_machine, FAILED)
                        THEN transition_to(state_machine, FAILED, NoReason)
                        ELSE @],
                 "none")

\* str(e) of the exceptions the TaskManager itself raises
ErrorText(exc) ==
    CASE exc = "TaskNotFoundError" -> "Task not found"
      [] exc = "InvalidStateTransitionError" -> "Invalid state transition"
      [] OTHER -> ProviderError

\* variant: the response message is recorded without an artifact
AppendResponse_no_artifact(W, task_id, content) ==
    LET task == W.objects[task_id]
    IN  [W EXCEPT
           !.objects[task_id].history = Append(@, Message("agent", content)),
           !.contexts[task.context_id] = Append(@, Message("agent", content))]

\* variant: the response takes the place of what the task held
AppendResponse_replace(W, task_id, content) ==
    LET task == W.objects[task_id]
    IN  [W EXCEPT
           !.objects[task_id].history = <<Message("agent", content)>>,
           !.contexts[task.context_id] = Append(@, Message("agent", content)),
           !.objects[task_id].artifacts = <<[name |-> "response", text |-> content]>>]

\* the response message and the artifact, appended through the local
\* reference `task`, whether or not the task is still stored
AppendResponse(W, task_id, content) ==
    LET task == W.objects[task_id]
    IN  [W EXCEPT
           !.objects[task_id].history = Append(@, Message(AGENT, content)),
           !.contexts[task.context_id] = Append(@, Message(AGENT, content)),
           !.objects[task_id].artifacts = Append(@, Artifact(content))]

SetWorld(W) ==
    /\ objects' = W.objects
    /\ tasks' = W.tasks
    /\ state_machines' = W.state_machines
    /\ contexts' = W.contexts

-----------------------------------------------------------------------------
(* server/task_manager.py: the operations *)

Init ==
    /\ sm = TaskStateMachine(SUBMITTED)
    /\ ret = NoRet
    /\ TMInitVars

\* utc_now() between two calls
Tick ==
    /\ now < MaxTime
    /\ now' = now + 1
    /\ UNCHANGED <<catvars, rtvars, consumed, sm, ret, objects, tasks, state_machines, contexts, execs,
                   provider_calls>>

\* variant: the history is not seeded with the input message
NewTask_unseeded(task_id, context_id, message, t) ==
    [id |-> task_id,
     context_id |-> IF context_id # 0 THEN context_id ELSE 100 + task_id,
     status |-> [state |-> SUBMITTED, updated_at |-> t,
                 message |-> [role |-> "none", text |-> ""]],
     history |-> <<>>,
     artifacts |-> <<>>]

NewTask(task_id, context_id, message, t) ==
    Task(task_id,
         IF context_id # NoContext THEN context_id ELSE GeneratedContext(task_id),
         TaskStatus(SUBMITTED, t, NoMessage),
         <<message>>,
         <<>>)

\* generate_id(): an id no task ever had
generate_id == Len(objects) + 1

\* variant: the context's message list is started anew in every case
created_reset(message, context_id) ==
    LET task_id == Len(objects) + 1
        task == NewTask(task_id, context_id, message, now)
    IN  [objects |-> Append(objects, task),
         tasks |-> tasks \cup {task_id},
         state_machines |->
             (task_id :> TaskStateMachine(SUBMITTED)) @@ state_machines,
         contexts |-> (task.context_id :> <<>>) @@ contexts]

\* the store once create_task has returned
created(message, context_id) ==
    LET task_id == generate_id
        task == NewTask(task_id, context_id, message, now)
    IN  [objects |-> Append(objects, task),
         tasks |-> tasks \cup {task_id},
         state_machines |->
             (task_id :> TaskStateMachine(SUBMITTED)) @@ state_machines,
         contexts |->
             IF context_id # NoContext /\ context_id \in DOMAIN contexts
             THEN contexts
             ELSE (task.context_id :> <<>>) @@ contexts]

create_task(message, context_id) ==
    /\ Len(objects) < MaxTasks
    /\ SetWorld(created(message, context_id))
    /\ provider_calls' = Append(provider_calls, 0)
    /\ UNCHANGED <<catvars, rtvars, consumed, sm, ret, now, execs>>

NewExec(kind, task_id, pc, events) ==
    [kind |-> kind, task_id |-> task_id, pc |-> pc, full_content |-> "",
     nchunks |-> 0, events |-> events, exc |-> "none",
     canceled_in_flight |-> FALSE, provider_outcome |-> "none",
     returned |-> "none"]

\* provider_outcome: "raise" once the provider call has raised, "failed"
\* once it has reported a failure (an error chunk, a result with
\* success=False), "returned" once it has delivered its content
\* the provider call of this execution is in flight
InFlight(x) == x.pc \in {"streaming", "awaiting"}

\* execute_task up to its first yield
execute_task(task_id) ==
    LET r == transition_state(World, task_id, WORKING, NoMessage, now)
    IN  \/ /\ r.exc # "none"
           /\ UNCHANGED <<catvars, rtvars, sm, ret, tmvars>>
        \/ /\ r.exc = "none"
           /\ Len(execs) < MaxExecs
           /\ SetWorld(r.W)
           /\ execs' = Append(execs,
                  NewExec("stream", task_id, "yield_working",
                          <<StatusEvent(r.W.objects[task_id], FALSE)>>))
           /\ UNCHANGED <<catvars, rtvars, consumed, sm, ret, now, provider_calls>>

\* the consumer asks for the next event: the prompt is extracted and
\* adapter.execute_stream is entered
stream_invoke(e) ==
    /\ execs[e].pc = "yield_working"
    /\ execs' = [execs EXCEPT ![e].pc = "streaming"]
    /\ provider_calls' = [provider_calls EXCEPT ![execs[e].task_id] = @ + 1]
    /\ UNCHANGED <<catvars, rtvars, consumed, sm, ret, now, objects, tasks, state_machines, contexts>>

\* except Exception as e: _fail_task, then the final status event; an
\* exception of _fail_task itself leaves the generator
stream_except(e, W, exc, outcome) ==
    LET task_id == execs[e].task_id
        r == _fail_task(W, task_id, ErrorText(exc), now)
    IN  IF r.exc # "none"
        THEN /\ SetWorld(r.W)
             /\ execs' = [execs EXCEPT ![e].pc = "raised", ![e].exc = r.exc,
                                       ![e].provider_outcome = outcome]
        ELSE /\ SetWorld(r.W)
             /\ execs' = [execs EXCEPT
                    ![e].pc = "done",
                    ![e].provider_outcome = outcome,
                    ![e].events =
                        Append(@, StatusEvent(r.W.objects[task_id], TRUE))]

\* variant: the response is emitted but not recorded on the task
stream_complete_unrecorded(e, content, outcome) ==
    /\ UNCHANGED <<objects, tasks, state_machines, contexts>>
    /\ execs' = [execs EXCEPT
           ![e].pc = "yield_artifact",
           ![e].provider_outcome = outcome,
           ![e].full_content = content,
           ![e].events = Append(@, [kind |-> "artifact-update",
                                    artifact |-> [name |-> "response",
                                                  text |-> content]])]

\* the lines after the chunk loop, up to the yield of the artifact event
stream_complete(e, content, outcome) ==
    LET task_id == execs[e].task_id
        W == AppendResponse(World, task_id, content)
    IN  /\ SetWorld(W)
        /\ execs' = [execs EXCEPT
               ![e].pc = "yield_artifact",
               ![e].provider_outcome = outcome,
               ![e].full_content = content,
               ![e].events = Append(@, ArtifactEvent(Artifact(content)))]

\* variant: the chunk's content is put before what was gathered
gathered_before(full_content, chunk) ==
    IF chunk.content # ""
    THEN chunk.content \o full_content
    ELSE full_content

\* if chunk.content: full_content += chunk.content
gathered(full_content, chunk) ==
    IF chunk.content # ""
    THEN full_content \o chunk.content
    ELSE full_content

\* the provider yields a chunk
stream_chunk(e, chunk) ==
    /\ execs[e].pc = "streaming"
    /\ LET task_id == execs[e].task_id
           content == gathered(execs[e].full_content, chunk)
       IN  \/ /\ chunk.chunk_type = "error"
              /\ LET r == _fail_task(World, task_id, ProviderError, now)
                 IN  IF r.exc # "none"
                     THEN stream_except(e, r.W, r.exc, "failed")
                     ELSE /\ SetWorld(r.W)
                          /\ execs' = [execs EXCEPT
                                 ![e].pc = "done",
                                 ![e].provider_outcome = "failed",
                                 ![e].events = Append(@,
                                     StatusEvent(r.W.objects[task_id], TRUE))]
           \/ /\ chunk.chunk_type # "error"
              /\ chunk.is_final
              /\ stream_complete(e, content, "returned")
           \/ /\ chunk.chunk_type # "error"
              /\ ~chunk.is_final
              /\ execs[e].nchunks < MaxChunks
              /\ execs' = [execs EXCEPT ![e].full_content = content,
                                        ![e].nchunks = @ + 1]
              /\ UNCHANGED <<objects, tasks, state_machines, contexts>>
    /\ UNCHANGED <<catvars, rtvars, sm, ret, now, provider_calls>>

\* the provider's stream ends without a final chunk
stream_exhausted(e) ==
    /\ execs[e].pc = "streaming"
    /\ stream_complete(e, execs[e].full_content, "returned")
    /\ UNCHANGED <<catvars, rtvars, consumed, sm, ret, now, provider_calls>>

\* the provider raises while the stream is read
stream_raises(e) ==
    /\ execs[e].pc = "streaming"
    /\ stream_except(e, World, "ProviderError", "raise")
    /\ UNCHANGED <<catvars, rtvars, consumed, sm, ret, now, provider_calls>>

\* the consumer asks for the event after the artifact event
stream_finish(e) ==
    /\ execs[e].pc = "yield_artifact"
    /\ LET task_id == execs[e].task_id
           r == transition_state(World, task_id, COMPLETED, NoMessage, now)
       IN  IF r.exc # "none"
           THEN stream_except(e, r.W, r.exc, execs[e].provider_outcome)
           ELSE /\ SetWorld(r.W)
                /\ execs' = [execs EXCEPT
                       ![e].pc = "done",
                       ![e].events =
                           Append(@, StatusEvent(r.W.objects[task_id], TRUE))]
    /\ UNCHANGED <<catvars, rtvars, consumed, sm, ret, now, provider_calls>>

\* what adapter.execute returns
ExecutionResults == [success : BOOLEAN, content : Contents]

\* execute_task_sync up to its await of adapter.execute
execute_task_sync(task_id) ==
    LET r == transition_state(World, task_id, WORKING, NoMessage, now)
    IN  \/ /\ r.exc # "none"
           /\ UNCHANGED <<catvars, rtvars, sm, ret, tmvars>>
        \/ /\ r.exc = "none"
           /\ Len(execs) < MaxExecs
           /\ SetWorld(r.W)
           /\ execs' = Append(execs, NewExec("sync", task_id, "awaiting", <<>>))
           /\ provider_calls' = [provider_calls EXCEPT ![task_id] = @ + 1]
           /\ UNCHANGED <<catvars, rtvars, consumed, sm, ret, now>>

\* return self.get_task(task_id)
sync_return(e, W, outcome) ==
    LET task_id == execs[e].task_id
    IN  /\ SetWorld(W)
        /\ IF get_task_found(W, task_id)
           THEN /\ execs' = [execs EXCEPT
                       ![e].pc = "done",
                       ![e].provider_outcome = outcome,
                       ![e].returned = W.objects[task_id].status.state]
           ELSE /\ execs' = [execs EXCEPT ![e].pc = "raised",
                                          ![e].provider_outcome = outcome,
                                          ![e].exc = "TaskNotFoundError"]

\* except Exception as e: _fail_task, then the return after the try
sync_except(e, W, exc, outcome) ==
    LET task_id == execs[e].task_id
        r == _fail_task(W, task_id, ErrorText(exc), now)
    IN  IF r.exc # "none"
        THEN /\ SetWorld(r.W)
             /\ execs' = [execs EXCEPT ![e].pc = "raised", ![e].exc = r.exc,
                                       ![e].provider_outcome = outcome]
        ELSE sync_return(e, r.W, outcome)

\* adapter.execute returns a result
sync_result(e, result) ==
    /\ execs[e].pc = "awaiting"
    /\ LET task_id == execs[e].task_id
       IN  \/ /\ ~result.success
              /\ LET r == _fail_task(World, task_id, "Execution failed", now)
                 IN  IF r.exc # "none"
                     THEN sync_except(e, r.W, r.exc, "failed")
                     ELSE sync_return(e, r.W, "failed")
           \/ /\ result.success
              /\ LET W == AppendResponse(World, task_id, result.content)
                     r == transition_state(W, task_id, COMPLETED, NoMessage, now)
                 IN  IF r.exc # "none"
                     THEN sync_except(e, r.W, r.exc, "returned")
                     ELSE sync_return(e, r.W, "returned")
    /\ UNCHANGED <<catvars, rtvars, consumed, sm, ret, now, provider_calls>>

\* adapter.execute raises
sync_raises(e) ==
    /\ execs[e].pc = "awaiting"
    /\ sync_except(e, World, "ProviderError", "raise")
    /\ UNCHANGED <<catvars, rtvars, consumed, sm, ret, now, provider_calls>>

\* return await self.transition_state(task_id, TaskState.CANCELED)
cancel_outcome(task_id) ==
    transition_state(World, task_id, CANCELED, NoMessage, now)

\* the executions of this task whose provider call is in flight are noted
\* as canceled in flight
NoteCanceled(task_id) ==
    [e \in DOMAIN execs |->
        IF execs[e].task_id = task_id /\ InFlight(execs[e])
        THEN [execs[e] EXCEPT !.canceled_in_flight = TRUE]
        ELSE execs[e]]

cancel_task(task_id) ==
    LET r == cancel_outcome(task_id)
    IN  /\ IF r.exc # "none"
           THEN UNCHANGED <<objects, tasks, state_machines, contexts, execs>>
           ELSE /\ SetWorld(r.W)
                /\ execs' = NoteCanceled(task_id)
        /\ UNCHANGED <<catvars, rtvars, consumed, sm, ret, now, provider_calls>>

\* a caller of the public transition_state asks for the terminal state that
\* no operation of the TaskManager asks for
CallerStates == {REJECTED}

transition_state_call(task_id, new_state) ==
    LET r == transition_state(World, task_id, new_state, NoMessage, now)
    IN  /\ IF r.exc # "none"
           THEN UNCHANGED <<objects, tasks, state_machines, contexts>>
           ELSE SetWorld(r.W)
        /\ UNCHANGED <<catvars, rtvars, consumed, sm, ret, now, execs, provider_calls>>

\* the states cleanup_completed sweeps
SWEPT_STATES == {COMPLETED, FAILED, CANCELED}

\* age = (now - updated_at).total_seconds()
age(task) == now - task.status.updated_at

\* the list to_remove built by the first loop of cleanup_completed
to_remove(max_age_seconds) ==
    {task_id \in tasks :
        /\ objects[task_id].status.state \in SWEPT_STATES
        /\ age(objects[task_id]) > max_age_seconds}

\* return len(to_remove)
cleanup_count(max_age_seconds) == Cardinality(to_remove(max_age_seconds))

\* variant: the state machines of the removed tasks are kept
cleanup_completed_tasks_only(max_age_seconds) ==
    /\ tasks' = tasks \ to_remove(max_age_seconds)
    /\ UNCHANGED <<catvars, rtvars, consumed, sm, ret, now, objects, state_machines,
                   contexts, execs, provider_calls>>

cleanup_completed(max_age_seconds) ==
    LET removed == to_remove(max_age_seconds)
    IN  /\ tasks' = tasks \ removed
        /\ state_machines' =
               [task_id \in DOMAIN state_machines \ removed |->
                   state_machines[task_id]]
        /\ UNCHANGED <<catvars, rtvars, consumed, sm, ret, now, objects, contexts, execs, provider_calls>>

TaskIds == 1..MaxTasks

Next ==
    \/ Tick
    \/ \E m \in InputMessages, c \in {NoContext} \cup CallerContexts :
            create_task(m, c)
    \/ \E task_id \in TaskIds : execute_task(task_id)
    \/ \E e \in DOMAIN execs : stream_invoke(e)
    \/ \E e \in DOMAIN execs, chunk \in StreamChunks :
            stream_chunk(e, chunk) /\ UNCHANGED consumed
    \/ \E e \in DOMAIN execs : stream_exhausted(e)
    \/ \E e \in DOMAIN execs : stream_raises(e)
    \/ \E e \in DOMAIN execs : stream_finish(e)
    \/ \E task_id \in TaskIds : execute_task_sync(task_id)
    \/ \E e \in DOMAIN execs, result \in ExecutionResults : sync_result(e, result)
    \/ \E e \in DOMAIN execs : sync_raises(e)
    \/ \E task_id \in TaskIds : cancel_task(task_id)
    \/ \E task_id \in TaskIds, new_state \in CallerStates :
            transition_state_call(task_id, new_state)
    \/ \E max_age \in 0..MaxAge : cleanup_completed(max_age)

Spec == Init /\ [][Next]_vars

-----------------------------------------------------------------------------
(* SpecLive: the TaskManager when every started execution is carried on:
   the consumer of a stream asks for the next event, and the provider call
   returns, yields a chunk, ends or raises.  Only finitely many chunks come
   before the last one (MaxChunks). *)

\* the next step of an execution: of its consumer or of its provider call
Advance(e) ==
    \/ stream_invoke(e)
    \/ \E chunk \in StreamChunks : stream_chunk(e, chunk) /\ UNCHANGED consumed
    \/ stream_exhausted(e)
    \/ stream_raises(e)
    \/ stream_finish(e)
    \/ \E result \in ExecutionResults : sync_result(e, result)
    \/ sync_raises(e)

Fairness ==
    \A e \in 1..MaxExecs : WF_vars(e \in DOMAIN execs /\ Advance(e))

\* the operations that start, cancel and sweep tasks, and the executions;
\* every task gets a context of its own
NextLive ==
    \/ Tick
    \/ \E m \in InputMessages : create_task(m, NoContext)
    \/ \E task_id \in TaskIds : execute_task(task_id)
    \/ \E task_id \in TaskIds : execute_task_sync(task_id)
    \/ \E e \in DOMAIN execs : Advance(e)
    \/ \E task_id \in TaskIds : cancel_task(task_id)
    \/ \E max_age \in 0..MaxAge : cleanup_completed(max_age)

SpecLive == Init /\ [][NextLive]_vars /\ Fairness

-----------------------------------------------------------------------------
(* SpecStream: execute_task under provider streams whose chunks carry
   different texts *)

ChunkTexts == {"", "a", "b"}

\* the chunks the execution has taken so far
ConsumedBy(e) == IF e \in DOMAIN consumed THEN consumed[e] ELSE <<>>

\* the log once the execution has taken this chunk as well: its content
\* and its is_final flag
Consumed(e, chunk) ==
    (e :> Append(ConsumedBy(e),
                 [content |-> chunk.content, is_final |-> chunk.is_final]))
        @@ consumed

TextChunks ==
    [content : ChunkTexts, is_final : BOOLEAN, chunk_type : ChunkTypes]

NextStream ==
    \/ \E m \in InputMessages : create_task(m, NoContext)
    \/ \E task_id \in TaskIds : execute_task(task_id)
    \/ \E e \in DOMAIN execs : stream_invoke(e)
    \/ \E e \in DOMAIN execs, chunk \in TextChunks :
            stream_chunk(e, chunk) /\ consumed' = Consumed(e, chunk)
    \/ \E e \in DOMAIN execs : stream_exhausted(e)
    \/ \E e \in DOMAIN execs : stream_raises(e)
    \/ \E e \in DOMAIN execs : stream_finish(e)
    \/ \E task_id \in TaskIds : cancel_task(task_id)

SpecStream == Init /\ [][NextStream]_vars

-----------------------------------------------------------------------------
(* server/handlers/jsonrpc_handler.py and the /a2a routes of server/app.py *)

\* variant: two of the standard codes are exchanged
ErrorCode_exchanged ==
    [PARSE_ERROR |-> -32700,
     INVALID_REQUEST |-> -32601,
     METHOD_NOT_FOUND |-> -32600,
     INVALID_PARAMS |-> -32602,
     INTERNAL_ERROR |-> -32603,
     TASK_NOT_FOUND |-> -32001,
     TASK_NOT_CANCELABLE |-> -32002,
     PUSH_NOTIFICATION_NOT_SUPPORTED |-> -32003,
     UNSUPPORTED_OPERATION |-> -32004,
     CONTENT_TYPE_NOT_SUPPORTED |-> -32005,
     INVALID_AGENT_CARD |-> -32006,
     AUTHENTICATION_REQUIRED |-> -32007,
     AUTHORIZATION_FAILED |-> -32008,
     VERSION_NOT_SUPPORTED |-> -32009]

\* core/errors.py: the members of ErrorCode
ErrorCode ==
    [PARSE_ERROR |-> -32700,
     INVALID_REQUEST |-> -32600,
     METHOD_NOT_FOUND |-> -32601,
     INVALID_PARAMS |-> -32602,
     INTERNAL_ERROR |-> -32603,
     TASK_NOT_FOUND |-> -32001,
     TASK_NOT_CANCELABLE |-> -32002,
     PUSH_NOTIFICATION_NOT_SUPPORTED |-> -32003,
     UNSUPPORTED_OPERATION |-> -32004,
     CONTENT_TYPE_NOT_SUPPORTED |-> -32005,
     INVALID_AGENT_CARD |-> -32006,
     AUTHENTICATION_REQUIRED |-> -32007,
     AUTHORIZATION_FAILED |-> -32008,
     VERSION_NOT_SUPPORTED |-> -32009]

METHODS ==
    {"message/send", "message/stream", "tasks/get", "tasks/cancel",
     "tasks/pushNotificationConfig/set", "tasks/pushNotificationConfig/get"}

\* methods a client may name that the handler does not know
UnknownMethods == {"tasks/list"}

\* params without a "taskId" key
NoTaskId == 0

\* request.params: None, or a dict with the keys the method reads
NoParams ==
    [present |-> FALSE, taskId |-> NoTaskId, message |-> NoMessage,
     contextId |-> NoContext]

MessageParams ==
    {[present |-> TRUE, taskId |-> NoTaskId, message |-> m, contextId |-> c] :
        m \in InputMessages, c \in {NoContext} \cup CallerContexts}

TaskParams ==
    {[present |-> TRUE, taskId |-> i, message |-> NoMessage,
      contextId |-> NoContext] : i \in TaskIds \cup {NoTaskId}}

JSONRPCRequest(method, params) == [method |-> method, params |-> params]

\* JSONRPCResponse(id, result) and _error_response(id, code, message)
NoResult == [none |-> TRUE]

JSONRPCResponse(result) == [kind |-> "result", code |-> 0, result |-> result]

_error_response(code) == [kind |-> "error", code |-> code, result |-> NoResult]

_serialize_task(task) ==
    [taskId |-> task.id,
     contextId |-> task.context_id,
     status |-> [state |-> task.status.state],
     history |-> [i \in DOMAIN task.history |->
                     [role |-> task.history[i].role,
                      parts |-> <<[type |-> "text",
                                   text |-> task.history[i].text]>>]],
     artifacts |-> [i \in DOMAIN task.artifacts |->
                       [name |-> task.artifacts[i].name,
                        parts |-> <<[type |-> "text",
                                     text |-> task.artifacts[i].text]>>]]]

\* what a call of handle comes to: the store it leaves, and the response it
\* returns or the exception it raises
Handled(W, response) == [W |-> W, response |-> response, exc |-> "none"]

HandleRaised(W, exc) == [W |-> W, response |-> NoResult, exc |-> exc]

\* variant: a missing task is reported as an internal error
handle_except_internal(W, exc, code) ==
    Handled(W, [kind |-> "error", code |-> -32603, result |-> NoResult])

\* the except clauses of handle; code is e.code of an A2AError
handle_except(W, exc, code) ==
    CASE exc = "TaskNotFoundError" ->
             Handled(W, _error_response(ErrorCode.TASK_NOT_FOUND))
      [] exc = "InvalidStateTransitionError" ->
             IF "INVALID_STATE_TRANSITION" \in DOMAIN ErrorCode
             THEN Handled(W, _error_response(ErrorCode["INVALID_STATE_TRANSITION"]))
             ELSE HandleRaised(W, "AttributeError")
      [] exc = "A2AError" -> Handled(W, _error_response(code))
      [] OTHER -> Handled(W, _error_response(ErrorCode.INTERNAL_ERROR))

\* _handle_message_send when params is missing
_handle_message_send_invalid(params) ==
    handle_except(World, "A2AError", ErrorCode.INVALID_PARAMS)

_handle_tasks_get(params) ==
    IF ~params.present \/ params.taskId = NoTaskId
    THEN handle_except(World, "A2AError", ErrorCode.INVALID_PARAMS)
    ELSE IF ~get_task_found(World, params.taskId)
         THEN handle_except(World, "TaskNotFoundError", ErrorCode.TASK_NOT_FOUND)
         ELSE Handled(World,
                      JSONRPCResponse(_serialize_task(objects[params.taskId])))

\* variant: canceling a task that cannot be canceled returns it as it is
_handle_tasks_cancel_lenient(params) ==
    IF ~params.present \/ params.taskId = NoTaskId
    THEN handle_except(World, "A2AError", ErrorCode.INVALID_PARAMS)
    ELSE LET r == cancel_outcome(params.taskId)
         IN  IF r.exc = "TaskNotFoundError"
             THEN handle_except(r.W, r.exc, ErrorCode.TASK_NOT_FOUND)
             ELSE Handled(r.W,
                      JSONRPCResponse(_serialize_task(r.W.objects[params.taskId])))

_handle_tasks_cancel(params) ==
    IF ~params.present \/ params.taskId = NoTaskId
    THEN handle_except(World, "A2AError", ErrorCode.INVALID_PARAMS)
    ELSE LET r == cancel_outcome(params.taskId)
         IN  IF r.exc # "none"
             THEN handle_except(r.W, r.exc, ErrorCode.TASK_NOT_FOUND)
             ELSE Handled(r.W,
                      JSONRPCResponse(_serialize_task(r.W.objects[params.taskId])))

\* handle, for every request it answers without suspending
handle(request) ==
    IF request.method \notin METHODS
    THEN Handled(World, _error_response(ErrorCode.METHOD_NOT_FOUND))
    ELSE CASE request.method = "message/send" ->
                  _handle_message_send_invalid(request.params)
           [] request.method = "message/stream" ->
                  Handled(World, JSONRPCResponse(
                      [error |-> "Use stream endpoint for message/stream"]))
           [] request.method = "tasks/get" ->
                  _handle_tasks_get(request.params)
           [] request.method = "tasks/cancel" ->
                  _handle_tasks_cancel(request.params)
           [] OTHER -> Handled(World, JSONRPCResponse([supported |-> FALSE]))

\* app.py handle_jsonrpc: the response of handle, or the parse-error response
\* of the route's except Exception clause when handle raised
handle_jsonrpc_response(h) ==
    IF h.exc # "none"
    THEN _error_response(ErrorCode.PARSE_ERROR)
    ELSE h.response

\* the response to a message/send request whose execute_task_sync call ended
message_send_response(x) ==
    IF x.pc = "done"
    THEN handle_jsonrpc_response(
             Handled(World, JSONRPCResponse(_serialize_task(
                 [objects[x.task_id] EXCEPT !.status.state = x.returned]))))
    ELSE handle_jsonrpc_response(
             handle_except(World, x.exc, ErrorCode.TASK_NOT_FOUND))

\* the task ids no client has been told: a message/send request names its
\* task only in its response
Undisclosed ==
    {execs[e].task_id : e \in {d \in DOMAIN execs :
                                  execs[d].kind = "sync" /\ execs[d].pc = "awaiting"}}

Requests ==
    {JSONRPCRequest(m, q) :
        m \in {"message/send"}, q \in MessageParams \cup {NoParams}}
    \cup {JSONRPCRequest(m, q) :
        m \in {"tasks/get", "tasks/cancel"},
        q \in {t \in TaskParams : t.taskId \notin Undisclosed} \cup {NoParams}}
    \cup {JSONRPCRequest(m, NoParams) :
        m \in {"message/stream", "tasks/pushNotificationConfig/set",
               "tasks/pushNotificationConfig/get"} \cup UnknownMethods}

\* POST /a2a. A well-formed message/send runs create_task and
\* execute_task_sync up to the await of adapter.execute; every other request
\* is answered at once, with handle_jsonrpc_response(handle(request)).
handle_jsonrpc(request) ==
    IF request.method = "message/send" /\ request.params.present
    THEN /\ Len(objects) < MaxTasks
         /\ Len(execs) < MaxExecs
         /\ LET task_id == generate_id
                W == created(request.params.message, request.params.contextId)
                r == transition_state(W, task_id, WORKING, NoMessage, now)
            IN  /\ SetWorld(r.W)
                /\ execs' = Append(execs, NewExec("sync", task_id, "awaiting", <<>>))
                /\ provider_calls' = Append(provider_calls, 1)
         /\ UNCHANGED <<catvars, rtvars, consumed, sm, ret, now>>
    ELSE LET h == handle(request)
         IN  /\ SetWorld(h.W)
             /\ execs' = IF request.method = "tasks/cancel" /\ h.W # World
                         THEN NoteCanceled(request.params.taskId)
                         ELSE execs
             /\ UNCHANGED <<catvars, rtvars, consumed, sm, ret, now, provider_calls>>

\* _sse_event(event_type, data) for the events handle_stream re-emits
sse_status(task_id, event) ==
    [event |-> "task.status", taskId |-> task_id, state |-> event.state,
     final |-> event.final]

sse_artifact(task_id, event) ==
    [event |-> "task.artifact", taskId |-> task_id, artifact |-> event.artifact]

sse_error == [event |-> "error", code |-> ErrorCode.INTERNAL_ERROR]

\* variant: the frame of a status event is marked final whatever the event says
sse_frame_final(task_id, event) ==
    IF event.kind = "status-update"
    THEN [event |-> "task.status", taskId |-> task_id, state |-> event.state,
          final |-> TRUE]
    ELSE [event |-> "task.artifact", taskId |-> task_id,
          artifact |-> event.artifact]

sse_frame(task_id, event) ==
    IF event.kind = "status-update"
    THEN sse_status(task_id, event)
    ELSE sse_artifact(task_id, event)

\* the frames handle_stream has yielded for a message/stream request: one
\* per event of execute_task, then the error frame of except Exception once
\* the generator has raised
handle_stream_frames(x) ==
    [i \in DOMAIN x.events |-> sse_frame(x.task_id, x.events[i])]
        \o (IF x.pc = "raised" THEN <<sse_error>> ELSE <<>>)

StreamRequests ==
    {JSONRPCRequest("message/stream", q) : q \in MessageParams}
    \cup {JSONRPCRequest("tasks/get", NoParams)}

\* the one frame handle_stream yields for any other method
sse_refusal ==
    <<[event |-> "error", error |-> "Only message/stream supports streaming"]>>

\* POST /a2a/stream, up to the first frame. message/stream runs create_task
\* and execute_task up to its first yield; any other method gets
\* sse_refusal and touches nothing.
handle_stream(request) ==
    IF request.method # "message/stream"
    THEN UNCHANGED <<catvars, rtvars, sm, ret, tmvars>>
    ELSE /\ Len(objects) < MaxTasks
         /\ Len(execs) < MaxExecs
         /\ LET task_id == generate_id
                W == created(request.params.message, request.params.contextId)
                r == transition_state(W, task_id, WORKING, NoMessage, now)
            IN  /\ SetWorld(r.W)
                /\ execs' = Append(execs,
                       NewExec("stream", task_id, "yield_working",
                               <<StatusEvent(r.W.objects[task_id], FALSE)>>))
                /\ provider_calls' = Append(provider_calls, 0)
         /\ UNCHANGED <<catvars, rtvars, consumed, sm, ret, now>>

\* the server: requests on both routes, the executions they started, and
\* the periodic cleanup of app.py
NextRPC ==
    \/ Tick
    \/ \E request \in Requests : handle_jsonrpc(request)
    \/ \E request \in StreamRequests : handle_stream(request)
    \/ \E e \in DOMAIN execs : stream_invoke(e)
    \/ \E e \in DOMAIN execs, chunk \in StreamChunks :
            stream_chunk(e, chunk) /\ UNCHANGED consumed
    \/ \E e \in DOMAIN execs : stream_exhausted(e)
    \/ \E e \in DOMAIN execs : stream_raises(e)
    \/ \E e \in DOMAIN execs : stream_finish(e)
    \/ \E e \in DOMAIN execs, result \in ExecutionResults : sync_result(e, result)
    \/ \E e \in DOMAIN execs : sync_raises(e)
    \/ \E max_age \in 0..MaxAge : cleanup_completed(max_age)

SpecRPC == Init /\ [][NextRPC]_vars

-----------------------------------------------------------------------------
(* orchestration/catalog.py *)

MaxRegistering == 2

AgentSkill(id, tags) == [id |-> id, tags |-> tags]

\* the adapters offered to the catalog, by their names, and for each the
\* first two skills of its class with two of their tags
Adapters == {"claude-code", "codex-cli"}

skills(adapter) ==
    IF adapter = "claude-code"
    THEN <<AgentSkill("code-generation", {"coding", "generation"}),
           AgentSkill("code-review", {"coding", "review"})>>
    ELSE <<AgentSkill("code-generation", {"coding", "generation"}),
           AgentSkill("file-operations", {"files"})>>

\* the names agents are registered under
Names == {"primary", "backup"}

AgentEntry(name, adapter, healthy) ==
    [name |-> name, adapter |-> adapter, healthy |-> healthy]

SkillIds(adapter) == {skills(adapter)[i].id : i \in DOMAIN skills(adapter)}

Tags(adapter) ==
    UNION {skills(adapter)[i].tags : i \in DOMAIN skills(adapter)}

\* variant: only the keys the index does not have yet are given the name
IndexAdd_fresh(index, keys, name) ==
    [k \in DOMAIN index \cup keys |->
        IF k \in DOMAIN index THEN index[k] ELSE {name}]

\* index[key].add(name) for every key, the entry being created when missing
IndexAdd(index, keys, name) ==
    [k \in DOMAIN index \cup keys |->
        (IF k \in DOMAIN index THEN index[k] ELSE {})
            \cup (IF k \in keys THEN {name} ELSE {})]

\* index[key].discard(name) for every key that is in the index
IndexDiscard(index, keys, name) ==
    [k \in DOMAIN index |-> IF k \in keys THEN index[k] \ {name} ELSE index[k]]

\* The entry objects a health_check_all call holds are those of the moment
\* it was made.  When such an entry leaves the catalog (unregister, or a
\* store that replaces it) the call keeps the object: its healthy flag is
\* carried in the call from then on.
Detached(name) ==
    IF /\ health_call.active
       /\ name \in health_call.names
       /\ name \notin DOMAIN health_call.detached
       /\ name \in DOMAIN _agents
    THEN [health_call EXCEPT
             !.detached = [n \in DOMAIN @ \cup {name} |->
                              IF n = name THEN _agents[name].healthy ELSE @[n]]]
    ELSE health_call

\* register from "Create entry" on: the entry is stored under the name and
\* the adapter's skills and tags are indexed
register_store(name, adapter, inited) ==
    /\ health_call' = Detached(name)
    /\ _agents' = [n \in DOMAIN _agents \cup {name} |->
                      IF n = name
                      THEN AgentEntry(name, adapter, adapter \in inited)
                      ELSE _agents[n]]
    /\ _agents_keys' = IF name \in DOMAIN _agents THEN _agents_keys
                       ELSE Append(_agents_keys, name)
    /\ _skill_index' = IndexAdd(_skill_index, SkillIds(adapter), name)
    /\ _tag_index' = IndexAdd(_tag_index, Tags(adapter), name)

\* register up to its await: ValueError for a registered name, suspended in
\* adapter.initialize() when that is asked for and needed, done otherwise
register(name, adapter, initialize) ==
    /\ IF name \in DOMAIN _agents
       THEN UNCHANGED catvars
       ELSE IF initialize /\ adapter \notin initialized
            THEN /\ Cardinality(registering) < MaxRegistering
                 /\ registering' =
                        registering \cup {[name |-> name, adapter |-> adapter]}
                 /\ UNCHANGED <<_agents, _agents_keys, _skill_index,
                                _tag_index, initialized, health_call>>
            ELSE /\ register_store(name, adapter, initialized)
                 /\ UNCHANGED <<initialized, registering>>
    /\ UNCHANGED <<sm, ret, tmvars, rtvars>>

\* adapter.initialize() returns and register runs to its end
register_resume(call) ==
    /\ call \in registering
    /\ registering' = registering \ {call}
    /\ initialized' = initialized \cup {call.adapter}
    /\ register_store(call.name, call.adapter, initialized')
    /\ UNCHANGED <<sm, ret, tmvars, rtvars>>

\* adapter.initialize() raises and register ends with its exception
register_raises(call) ==
    /\ call \in registering
    /\ registering' = registering \ {call}
    /\ UNCHANGED <<_agents, _agents_keys, _skill_index, _tag_index,
                   initialized, health_call>>
    /\ UNCHANGED <<sm, ret, tmvars, rtvars>>

\* what unregister(name) returns and the catalog it leaves
unregistered(name) ==
    IF name \notin DOMAIN _agents
    THEN [result |-> FALSE, agents |-> _agents, keys |-> _agents_keys,
          skill_index |-> _skill_index, tag_index |-> _tag_index]
    ELSE LET entry == _agents[name]
         IN  [result |-> TRUE,
              agents |-> [n \in DOMAIN _agents \ {name} |-> _agents[n]],
              keys |-> SelectSeq(_agents_keys, LAMBDA n : n # name),
              skill_index |->
                  IndexDiscard(_skill_index, SkillIds(entry.adapter), name),
              tag_index |->
                  IndexDiscard(_tag_index, Tags(entry.adapter), name)]

unregister(name) ==
    /\ _agents' = unregistered(name).agents
    /\ _agents_keys' = unregistered(name).keys
    /\ _skill_index' = unregistered(name).skill_index
    /\ _tag_index' = unregistered(name).tag_index
    /\ health_call' = Detached(name)
    /\ UNCHANGED <<initialized, registering>>
    /\ UNCHANGED <<sm, ret, tmvars, rtvars>>

\* list(self._agents.values()), filtered by health when asked for
list_agents(healthy_only) ==
    LET entries == [i \in DOMAIN _agents_keys |-> _agents[_agents_keys[i]]]
    IN  IF healthy_only THEN SelectSeq(entries, LAMBDA a : a.healthy)
        ELSE entries

\* the elements of a list
Range(list) == {list[i] : i \in DOMAIN list}

\* index.get(key, set())
IndexGet(index, key) == IF key \in DOMAIN index THEN index[key] ELSE {}

\* the entries of the names that are registered; the order of the list the
\* code returns is the iteration order of a set and is not modelled
EntriesOf(names) == {_agents[n] : n \in names \cap DOMAIN _agents}

find_by_skill(skill_id) == EntriesOf(IndexGet(_skill_index, skill_id))

find_by_tag(tag) == EntriesOf(IndexGet(_tag_index, tag))

\* the names find_by_tags collects for a non-empty list of tags: the
\* intersection of the tags' index entries when match_all, their union
\* otherwise
RECURSIVE tag_names(_, _)
tag_names(tags, match_all) ==
    LET rest == SubSeq(tags, 1, Len(tags) - 1)
        last == IndexGet(_tag_index, tags[Len(tags)])
    IN  IF Len(tags) = 1 THEN last
        ELSE IF match_all THEN tag_names(rest, match_all) \cap last
        ELSE tag_names(rest, match_all) \cup last

find_by_tags(tags, match_all) ==
    IF tags = <<>> THEN Range(list_agents(FALSE))
    ELSE EntriesOf(tag_names(tags, match_all))

\* what adapter.health_check() can do
HealthOutcomes == {"healthy", "unhealthy", "raise"}

\* health_check_all up to its first await: one check_one per entry of the
\* catalog, all of them started
health_check_all ==
    /\ ~health_call.active
    /\ health_call' = [active |-> TRUE, raised |-> FALSE,
                       names |-> DOMAIN _agents, pending |-> DOMAIN _agents,
                       detached |-> <<>>, results |-> <<>>, failed |-> {}]
    /\ UNCHANGED <<_agents, _agents_keys, _skill_index, _tag_index,
                   initialized, registering>>
    /\ UNCHANGED <<sm, ret, tmvars, rtvars>>

\* variant: an exception of the adapter's health check leaves check_one
check_one_uncaught(outcome) ==
    [raised |-> outcome = "raise", healthy |-> outcome = "healthy"]

\* check_one after its await: the value it writes to entry.healthy and
\* returns, an exception of the adapter being caught
check_one(outcome) ==
    [raised |-> FALSE, healthy |-> outcome = "healthy"]

\* one check_one resumes from adapter.health_check(), writes entry.healthy
\* and completes; the loop over as_completed records its result, or ends
\* with the exception that left it
check_one_done(name, outcome) ==
    /\ health_call.active
    /\ name \in health_call.pending
    /\ LET c == check_one(outcome)
           written == ~c.raised /\ name \notin DOMAIN health_call.detached
       IN  /\ _agents' = IF written
                         THEN [_agents EXCEPT ![name].healthy = c.healthy]
                         ELSE _agents
           /\ health_call' =
                 IF c.raised
                 THEN [health_call EXCEPT !.raised = TRUE, !.pending = {}]
                 ELSE [health_call EXCEPT
                          !.pending = @ \ {name},
                          !.failed = IF outcome = "raise" THEN @ \cup {name}
                                     ELSE @,
                          !.detached =
                              [n \in DOMAIN @ |->
                                  IF n = name THEN c.healthy ELSE @[n]],
                          !.results =
                              [n \in DOMAIN @ \cup {name} |->
                                  IF n = name THEN c.healthy ELSE @[n]]]
    /\ UNCHANGED <<_agents_keys, _skill_index, _tag_index, initialized,
                   registering>>
    /\ UNCHANGED <<sm, ret, tmvars, rtvars>>

\* every check_one has completed and health_check_all returns its results
health_check_all_return ==
    /\ health_call.active
    /\ health_call.pending = {}
    /\ health_call' = NoHealthCall
    /\ UNCHANGED <<_agents, _agents_keys, _skill_index, _tag_index,
                   initialized, registering>>
    /\ UNCHANGED <<sm, ret, tmvars, rtvars>>

NextCatalog ==
    \/ \E name \in Names, adapter \in Adapters, initialize \in BOOLEAN :
            register(name, adapter, initialize)
    \/ \E call \in registering : register_resume(call)
    \/ \E call \in registering : register_raises(call)
    \/ \E name \in Names : unregister(name)
    \/ health_check_all
    \/ \E name \in Names, outcome \in HealthOutcomes :
            check_one_done(name, outcome)
    \/ health_check_all_return

SpecCatalog == Init /\ [][NextCatalog]_vars

-----------------------------------------------------------------------------
(* orchestration/router.py: the strategies *)

MaxSelections == 6

\* select returns None
None == [none |-> TRUE]

\* context=None, and a context naming the skills and tags asked for
NoRouting == [none |-> TRUE]

Routing(required_skills, required_tags) ==
    [skills |-> required_skills, tags |-> required_tags]

\* context.get("skills", []) and context.get("tags", [])
required_skills(context) == IF context = NoRouting THEN <<>> ELSE context.skills

required_tags(context) == IF context = NoRouting THEN <<>> ELSE context.tags

\* the contexts callers route with
RoutingContexts ==
    {NoRouting,
     Routing(<<"code-review">>, <<>>),
     Routing(<<"code-review">>, <<"coding", "files">>),
     Routing(<<>>, <<"coding", "files">>),
     Routing(<<"debugging">>, <<"testing">>)}

\* AgentEntry.skill_tags
skill_tags(entry) == Tags(entry.adapter)

\* the instance a strategy class constructs; one record shape serves every
\* class, the classes without state leaving it as it is
BaseRouter(weights) == [_index |-> 0, _weights |-> weights, _counters |-> <<>>]

Selection(selected, self) == [selected |-> selected, self |-> self]

\* variant: the counter is left where it was
RoundRobinRouter_select_stuck(self, candidates) ==
    IF candidates = <<>> THEN [selected |-> None, self |-> self]
    ELSE [selected |-> candidates[(self._index % Len(candidates)) + 1],
          self |-> self]

RoundRobinRouter_select(self, candidates) ==
    IF candidates = <<>> THEN Selection(None, self)
    ELSE Selection(candidates[(self._index % Len(candidates)) + 1],
                   [self EXCEPT !._index = @ + 1])

\* variant: the first candidate, healthy or not
FirstAvailableRouter_select_first(self, candidates) ==
    [selected |-> IF candidates = <<>> THEN None ELSE candidates[1],
     self |-> self]

FirstAvailableRouter_select(self, candidates) ==
    LET healthy == SelectSeq(candidates, LAMBDA a : a.healthy)
    IN  Selection(IF healthy # <<>> THEN healthy[1]
                  ELSE IF candidates # <<>> THEN candidates[1]
                  ELSE None,
                  self)

\* variant: a matching tag weighs as much as a matching skill
score_flat(agent, context) ==
    Cardinality({i \in DOMAIN required_skills(context) :
                    required_skills(context)[i] \in SkillIds(agent.adapter)})
    + Cardinality({i \in DOMAIN required_tags(context) :
                      required_tags(context)[i] \in Tags(agent.adapter)})

\* the score SkillMatchRouter.select gives an agent
score(agent, context) ==
    10 * Cardinality({i \in DOMAIN required_skills(context) :
                         required_skills(context)[i] \in SkillIds(agent.adapter)})
    + Cardinality({i \in DOMAIN required_tags(context) :
                      required_tags(context)[i] \in skill_tags(agent)})

\* scored.sort(key=score, reverse=True)[0]: the sort is stable, so the head
\* is the earliest of the entries with the highest score
sorted_head(scored, context) ==
    LET top == CHOOSE i \in DOMAIN scored :
                  /\ \A j \in DOMAIN scored :
                        score(scored[j], context) <= score(scored[i], context)
                  /\ \A j \in 1..(i - 1) :
                        score(scored[j], context) < score(scored[i], context)
    IN  scored[top]

SkillMatchRouter_select(self, candidates, context) ==
    IF candidates = <<>> THEN Selection(None, self)
    ELSE IF required_skills(context) = <<>> /\ required_tags(context) = <<>>
    THEN Selection(candidates[1], self)
    ELSE LET scored == SelectSeq(candidates,
                                 LAMBDA a : score(a, context) > 0)
         IN  IF scored # <<>> THEN Selection(sorted_head(scored, context), self)
             ELSE Selection(candidates[1], self)

\* dict.get(key, default)
Get(dict, key, default) == IF key \in DOMAIN dict THEN dict[key] ELSE default

\* the ratio of a candidate, count / weight, as the pair of the two;
\* float("inf") when the weight is not positive
Ratio(self, agent) ==
    [count |-> Get(self._counters, agent.name, 0),
     weight |-> Get(self._weights, agent.name, 1)]

Infinite(ratio) == ratio.weight <= 0

\* ratio < best_ratio, for quotients of small integers
RatioLess(ratio, best_ratio) ==
    /\ ~Infinite(ratio)
    /\ \/ Infinite(best_ratio)
       \/ ratio.count * best_ratio.weight < best_ratio.count * ratio.weight

\* the loop of WeightedRouter.select over candidates[i..]: best is the
\* position of best_agent, 0 for None
RECURSIVE best_agent(_, _, _, _, _)
best_agent(self, candidates, i, best, best_ratio) ==
    IF i > Len(candidates) THEN best
    ELSE IF ~candidates[i].healthy
    THEN best_agent(self, candidates, i + 1, best, best_ratio)
    ELSE IF RatioLess(Ratio(self, candidates[i]), best_ratio)
    THEN best_agent(self, candidates, i + 1, i, Ratio(self, candidates[i]))
    ELSE best_agent(self, candidates, i + 1, best, best_ratio)

\* variant: the weights are not consulted
WeightedRouter_select_even(self, candidates) ==
    LET plain == [self EXCEPT !._weights = <<>>]
        best == best_agent(plain, candidates, 1, 0, [count |-> 0, weight |-> 0])
        name == candidates[best].name
    IN  IF candidates = <<>> THEN [selected |-> None, self |-> self]
        ELSE IF best = 0 THEN [selected |-> candidates[1], self |-> self]
        ELSE [selected |-> candidates[best],
              self |-> [self EXCEPT !._counters =
                            [n \in DOMAIN @ \cup {name} |->
                                IF n = name
                                THEN (IF n \in DOMAIN @ THEN @[n] ELSE 0) + 1
                                ELSE @[n]]]]

WeightedRouter_select(self, candidates) ==
    LET best == best_agent(self, candidates, 1, 0, [count |-> 0, weight |-> 0])
        name == candidates[best].name
    IN  IF candidates = <<>> THEN Selection(None, self)
        ELSE IF best = 0 THEN Selection(candidates[1], self)
        ELSE Selection(candidates[best],
                       [self EXCEPT !._counters =
                           [n \in DOMAIN @ \cup {name} |->
                               IF n = name THEN Get(@, name, 0) + 1
                               ELSE @[n]]])

\* RandomRouter.select: what random.choice(pool) can return
RandomRouter_select(self, candidates) ==
    LET healthy == SelectSeq(candidates, LAMBDA a : a.healthy)
        pool == IF healthy # <<>> THEN healthy ELSE candidates
    IN  IF candidates = <<>> THEN {Selection(None, self)}
        ELSE {Selection(pool[i], self) : i \in DOMAIN pool}

\* AgentRouter.STRATEGIES
STRATEGIES == {ROUND_ROBIN, SKILL_MATCH, FIRST_AVAILABLE, WEIGHTED, RANDOM}

\* the strategies whose instances keep state
Counting == {ROUND_ROBIN, WEIGHTED}

\* router.select(agents, context) for the instance of a strategy: the
\* selections it can make, each with the instance as select leaves it
select(strategy, self, candidates, context) ==
    CASE strategy = ROUND_ROBIN ->
            {RoundRobinRouter_select(self, candidates)}
      [] strategy = SKILL_MATCH ->
            {SkillMatchRouter_select(self, candidates, context)}
      [] strategy = FIRST_AVAILABLE ->
            {FirstAvailableRouter_select(self, candidates)}
      [] strategy = WEIGHTED ->
            {WeightedRouter_select(self, candidates)}
      [] strategy = RANDOM ->
            RandomRouter_select(self, candidates)

\* the name of what was selected
NameOf(selected) == IF selected = None THEN "" ELSE selected.name

\* the record kept of a selection by a strategy that keeps state
Selected(strategy, selected) == [strategy |-> strategy, name |-> NameOf(selected)]

\* the candidates of the strategy checks: A and C run the same adapter
CandidateNames == {"A", "B", "C"}

CandidateAdapter(name) == IF name = "B" THEN "codex-cli" ELSE "claude-code"

Candidates ==
    {AgentEntry(name, CandidateAdapter(name), healthy) :
        name \in CandidateNames, healthy \in BOOLEAN}

\* the lists of up to three candidates with different names
CandidateLists ==
    {list \in {<<>>} \cup {<<a>> : a \in Candidates}
                    \cup (Candidates \X Candidates)
                    \cup (Candidates \X Candidates \X Candidates) :
        \A i, j \in DOMAIN list : i # j => list[i].name # list[j].name}

\* the weights a WeightedRouter is constructed with
Weights == {[A |-> 1, B |-> 3], [A |-> 0, C |-> 2]}

\* the strategy instances are constructed and a list of candidates is fixed
InitSelect ==
    /\ sm = TaskStateMachine(SUBMITTED)
    /\ ret = NoRet
    /\ StoreInit
    /\ CatalogInit
    /\ agents \in CandidateLists
    /\ _strategy = SKILL_MATCH
    /\ \E weights \in Weights :
          _routers = [strategy \in STRATEGIES |->
                         BaseRouter(IF strategy = WEIGHTED THEN weights
                                    ELSE <<>>)]
    /\ selections = <<>>

\* one call of select on the instance of a strategy, with the fixed list
select_call(strategy, context) ==
    /\ strategy \in Counting => Len(selections) < MaxSelections
    /\ \E s \in select(strategy, _routers[strategy], agents, context) :
          /\ _routers' = [_routers EXCEPT ![strategy] = s.self]
          /\ selections' = IF strategy \in Counting
                           THEN Append(selections, Selected(strategy, s.selected))
                           ELSE selections
          /\ ret' = [op |-> "select", strategy |-> strategy,
                     context |-> context, selected |-> s.selected]
    /\ UNCHANGED <<agents, _strategy>>
    /\ UNCHANGED <<sm, tmvars, catvars>>

\* only SkillMatchRouter.select reads its context
NextSelect ==
    \/ \E strategy \in STRATEGIES \ {SKILL_MATCH} :
            select_call(strategy, NoRouting)
    \/ \E context \in RoutingContexts : select_call(SKILL_MATCH, context)

SpecSelect == InitSelect /\ [][NextSelect]_vars

-----------------------------------------------------------------------------
(* orchestration/router.py: AgentRouter *)

MaxRoutes == 2

\* strategy=None in a call of route
NoStrategy == "None"

\* variant: an instance is constructed at every call
get_router_fresh(routers, strategy) ==
    [s \in DOMAIN routers \cup {strategy} |->
        IF s = strategy THEN BaseRouter(<<>>) ELSE routers[s]]

\* get_router: _routers after the call; the instance asked for is created
\* with router_class() when the strategy has none yet
get_router(routers, strategy) ==
    [s \in DOMAIN routers \cup {strategy} |->
        IF s \in DOMAIN routers THEN routers[s] ELSE BaseRouter(<<>>)]

\* variant: the candidates are passed on as they are listed
prefilter_none(listed, context) == listed

\* route's pre-filter: the agents with any of the skills or tags asked for,
\* or all of them when none has any or nothing is asked for
prefilter(listed, context) ==
    LET matching(agent) ==
            \/ \E i \in DOMAIN required_skills(context) :
                  required_skills(context)[i] \in SkillIds(agent.adapter)
            \/ \E i \in DOMAIN required_tags(context) :
                  required_tags(context)[i] \in skill_tags(agent)
        filtered == SelectSeq(listed, matching)
    IN  IF filtered # <<>> THEN filtered ELSE listed

\* the strategy route uses: strategy or self._strategy
active_strategy(strategy) == IF strategy = NoStrategy THEN _strategy ELSE strategy

set_strategy(strategy) ==
    /\ _strategy' = strategy
    /\ UNCHANGED <<agents, _routers, selections>>
    /\ UNCHANGED <<sm, ret, tmvars, catvars>>

\* what route returns, with _routers as it leaves them: None when the
\* catalog lists no agent; otherwise the candidates are filtered and handed
\* to the instance of the active strategy
routed(context, strategy, healthy_only) ==
    LET listed == list_agents(healthy_only)
        active == active_strategy(strategy)
        routers == get_router(_routers, active)
    IN  IF listed = <<>> THEN {[selected |-> None, routers |-> _routers]}
        ELSE {[selected |-> s.selected,
               routers |-> [routers EXCEPT ![active] = s.self]] :
                 s \in select(active, routers[active],
                              prefilter(listed, context), context)}

route(context, strategy, healthy_only) ==
    LET active == active_strategy(strategy)
        counted == active \in Counting /\ list_agents(healthy_only) # <<>>
    IN  /\ counted => Len(selections) < MaxRoutes
        /\ \E r \in routed(context, strategy, healthy_only) :
              /\ _routers' = r.routers
              /\ selections' = IF counted
                               THEN Append(selections, Selected(active, r.selected))
                               ELSE selections
        /\ UNCHANGED <<agents, _strategy>>
        /\ UNCHANGED <<sm, ret, tmvars, catvars>>

\* the contexts and the strategy overrides route is called with; every
\* strategy becomes the active one through set_strategy
RouteContexts ==
    {NoRouting,
     Routing(<<"code-review">>, <<>>),
     Routing(<<>>, <<"coding", "files">>)}

RouteStrategies == {NoStrategy, ROUND_ROBIN, WEIGHTED}

\* the catalog is filled by register calls made one at a time
NextRouter ==
    \/ \E name \in Names, adapter \in Adapters, initialize \in BOOLEAN :
            registering = {} /\ register(name, adapter, initialize)
    \/ \E call \in registering : register_resume(call)
    \/ \E name \in Names : unregister(name)
    \/ \E strategy \in STRATEGIES : set_strategy(strategy)
    \/ \E context \in RouteContexts, strategy \in RouteStrategies,
          healthy_only \in BOOLEAN :
            route(context, strategy, healthy_only)

SpecRouter == Init /\ [][NextRouter]_vars

-----------------------------------------------------------------------------
(* Properties of the state machine, checked under SpecSM *)

\* C1: transition_to(t) called in state s succeeds and leaves
\* current_state = t if and only if t is in the table entry of s; otherwise
\* it fails with InvalidStateTransitionError and leaves current_state and
\* the recorded transition history unchanged.
C1_TransitionIffInTable ==
    [][ret'.op = "transition_to" =>
         LET s == sm.current_state
             t == ret'.target
         IN  IF t \in VALID_TRANSITIONS[s]
             THEN /\ ret'.result = "ok"
                  /\ sm'.current_state = t
             ELSE /\ ret'.result = "InvalidStateTransitionError"
                  /\ sm'.current_state = s
                  /\ sm'.history = sm.history]_vars

\* a second validated transition has just succeeded
C1_Witness ==
    /\ ret.op = "transition_to"
    /\ ret.result = "ok"
    /\ sm.current_state = ret.target
    /\ Len(sm.history) = 3

\* the states the transition table marks terminal
TableTerminal == {COMPLETED, FAILED, CANCELED, REJECTED, UNKNOWN}

\* C2: every terminal state (COMPLETED, FAILED, CANCELED, REJECTED, UNKNOWN)
\* has an empty outgoing transition set, and a transition_to call made in
\* one of these states never succeeds, whatever its target.
C2_TerminalStatesAreFinal ==
    /\ [](\A s \in TableTerminal : VALID_TRANSITIONS[s] = {})
    /\ [][(sm.current_state \in TableTerminal /\ ret'.op = "transition_to") =>
            /\ ret'.result = "InvalidStateTransitionError"
            /\ sm' = sm]_vars

\* a transition_to call has just been refused in a terminal state that an
\* earlier transition reached
C2_Witness ==
    /\ ret.op = "transition_to"
    /\ ret.result = "InvalidStateTransitionError"
    /\ sm.current_state \in TableTerminal
    /\ Len(sm.history) = 2

-----------------------------------------------------------------------------
(* Properties of the TaskManager, checked under Spec *)

Finished(x) == x.pc \in {"done", "raised"}

IsFinalStatus(ev) == ev.kind = "status-update" /\ ev.final

IsArtifact(ev) == ev.kind = "artifact-update"

FinalCount(events) ==
    Cardinality({i \in DOMAIN events : IsFinalStatus(events[i])})

Undisturbed(x) ==
    /\ x.task_id \in tasks
    /\ state_machines[x.task_id].current_state # CANCELED

TerminalTasks == {task_id \in tasks :
                     objects[task_id].status.state \in TERMINAL_STATES}

-----------------------------------------------------------------------------
(* Properties of the JSON-RPC handler, checked under SpecRPC *)

AnyParams == MessageParams \cup TaskParams \cup {NoParams}

TaskRequest(method, task_id) ==
    JSONRPCRequest(method, [present |-> TRUE, taskId |-> task_id,
                            message |-> NoMessage, contextId |-> NoContext])

IsClosingFrame(f) ==
    \/ f.event = "error"
    \/ f.event = "task.status" /\ f.final

-----------------------------------------------------------------------------
(* Properties of the AgentCatalog, checked under SpecCatalog *)

\* the names an index refers to
IndexedNames(index) == UNION {index[k] : k \in DOMAIN index}

\* C20: the skill index and the tag index only ever hold names that are
\* registered; unregister(name) of a registered name returns true and leaves
\* the name in no index entry and out of the catalog, and of any other name
\* returns false and leaves the catalog as it was.
C20_IndicesHoldRegisteredNames ==
    /\ IndexedNames(_skill_index) \subseteq DOMAIN _agents
    /\ IndexedNames(_tag_index) \subseteq DOMAIN _agents
    /\ \A name \in Names :
          LET u == unregistered(name)
          IN  IF name \in DOMAIN _agents
              THEN /\ u.result
                   /\ name \notin DOMAIN u.agents
                   /\ name \notin IndexedNames(u.skill_index)
                   /\ name \notin IndexedNames(u.tag_index)
              ELSE /\ ~u.result
                   /\ u.agents = _agents
                   /\ u.skill_index = _skill_index
                   /\ u.tag_index = _tag_index

\* the catalog's entries and indices
Catalog == <<_agents, _skill_index, _tag_index>>

\* every skill id and every tag of the adapter's skills maps, after the
\* step, to a set that holds the name
IndexedAfter(name, adapter) ==
    /\ \A id \in SkillIds(adapter) :
          id \in DOMAIN _skill_index' /\ name \in _skill_index'[id]
    /\ \A tag \in Tags(adapter) :
          tag \in DOMAIN _tag_index' /\ name \in _tag_index'[tag]

\* C21: a register call for a name that is registered when the call is made
\* fails and leaves the entries, the skill index and the tag index as they
\* were; a register call that succeeds, at once or after the adapter's
\* initialize, leaves every skill id and every tag of the adapter's skills
\* mapped to a set that holds the name.
C21_RegisterContract ==
    [][/\ \A name \in Names, adapter \in Adapters, initialize \in BOOLEAN :
            register(name, adapter, initialize) =>
                IF name \in DOMAIN _agents
                THEN UNCHANGED Catalog
                ELSE IF initialize /\ adapter \notin initialized
                     THEN UNCHANGED Catalog
                     ELSE name \in DOMAIN _agents'
                          /\ IndexedAfter(name, adapter)
        /\ \A call \in registering :
            register_resume(call) =>
                call.name \in DOMAIN _agents'
                /\ IndexedAfter(call.name, call.adapter)]_vars

\* C21 witness: both names are registered, with different adapters, and the
\* skill both adapters share is indexed under both: a further register call
\* for either name fails
C21_Witness ==
    /\ DOMAIN _agents = Names
    /\ _agents["primary"].adapter # _agents["backup"].adapter
    /\ _skill_index["code-generation"] = Names
    /\ registering = {}

\* C22: a register call that succeeds after awaiting the adapter's
\* initialize stores under a name that is still unregistered (a call that
\* finds the name taken by an interleaved call fails as a duplicate), and the
\* index entries that hold the name afterwards are those of its own adapter.
C22_RegisterSerialized ==
    [][\A call \in registering :
            register_resume(call) =>
                /\ call.name \notin DOMAIN _agents
                /\ \A id \in DOMAIN _skill_index' :
                      call.name \in _skill_index'[id]
                          => id \in SkillIds(call.adapter)
                /\ \A tag \in DOMAIN _tag_index' :
                      call.name \in _tag_index'[tag]
                          => tag \in Tags(call.adapter)]_vars

\* the lists of tags asked for: up to two tags, one of which no adapter has
AskedTags == {"coding", "review", "files", "unknown"}

TagLists == {<<>>} \cup {<<t>> : t \in AskedTags} \cup (AskedTags \X AskedTags)

\* C23: for a non-empty list of tags, find_by_tags returns exactly the
\* registered agents that carry every listed tag when match_all is true and
\* exactly those that carry at least one listed tag when it is false.
C23_FindByTags ==
    \A tags \in TagLists \ {<<>>} :
        /\ find_by_tags(tags, TRUE) =
              {_agents[n] : n \in {m \in DOMAIN _agents :
                  Range(tags) \subseteq skill_tags(_agents[m])}}
        /\ find_by_tags(tags, FALSE) =
              {_agents[n] : n \in {m \in DOMAIN _agents :
                  Range(tags) \cap skill_tags(_agents[m]) # {}}}

\* the healthy flag of the entry a health_check_all call holds for a name
EntryHealthy(name) ==
    IF name \in DOMAIN health_call.detached THEN health_call.detached[name]
    ELSE _agents[name].healthy

-----------------------------------------------------------------------------
(* Properties of the routing strategies, checked under SpecSelect *)

\* the names one strategy has selected, in the order of its selections
Picks(strategy) ==
    LET own == SelectSeq(selections, LAMBDA s : s.strategy = strategy)
    IN  [i \in DOMAIN own |-> own[i].name]

\* how often a name occurs among the picks first..last
Times(picks, first, last, name) ==
    Cardinality({i \in first..last : picks[i] = name})

\* C25: over a fixed list of N candidates the i-th selection (counted from
\* 0) of a RoundRobin instance returns candidate i mod N, and any N*k
\* consecutive selections return each candidate exactly k times.
C25_RoundRobinCycles ==
    LET picks == Picks(ROUND_ROBIN)
        N == Len(agents)
    IN  N > 0 =>
          /\ \A i \in DOMAIN picks : picks[i] = agents[((i - 1) % N) + 1].name
          /\ \A first \in DOMAIN picks, k \in 1..MaxSelections :
                first + N * k - 1 <= Len(picks) =>
                    \A c \in DOMAIN agents :
                        Times(picks, first, first + N * k - 1, agents[c].name) = k

\* C25 witness: six selections of the RoundRobin instance over three
\* candidates
C25_Witness ==
    /\ Len(agents) = 3
    /\ Len(Picks(ROUND_ROBIN)) = 6

\* the last call of select was made on this strategy
Selecting(strategy) == ret # NoRet /\ ret.op = "select" /\ ret.strategy = strategy

\* C26: FirstAvailable returns the first healthy candidate in list order,
\* the first candidate of the list when none is healthy, and None only for
\* the empty list.
C26_FirstAvailable ==
    Selecting(FIRST_AVAILABLE) =>
        LET healthy == {i \in DOMAIN agents : agents[i].healthy}
        IN  IF agents = <<>> THEN ret.selected = None
            ELSE IF healthy = {} THEN ret.selected = agents[1]
            ELSE \E i \in healthy :
                    /\ ret.selected = agents[i]
                    /\ \A j \in healthy : i <= j

\* C26 witness: FirstAvailable has passed over an unhealthy first candidate
\* and returned the second
C26_Witness ==
    /\ Selecting(FIRST_AVAILABLE)
    /\ Len(agents) = 3
    /\ ~agents[1].healthy
    /\ ret.selected = agents[2]

\* the score the claim gives a candidate: 10 for each requested skill id it
\* has and 1 for each requested tag it has
ClaimedScore(agent, context) ==
    LET has_skills == {skills(agent.adapter)[i].id :
                          i \in DOMAIN skills(agent.adapter)}
        has_tags == UNION {skills(agent.adapter)[i].tags :
                              i \in DOMAIN skills(agent.adapter)}
        want_skills == IF context = NoRouting THEN <<>> ELSE context.skills
        want_tags == IF context = NoRouting THEN <<>> ELSE context.tags
    IN  10 * Cardinality({i \in DOMAIN want_skills : want_skills[i] \in has_skills})
        + Cardinality({i \in DOMAIN want_tags : want_tags[i] \in has_tags})

\* C27: SkillMatch returns the candidate with the highest score, the
\* earliest in the list among those with that score (so the first
\* candidate when every score is zero); with C1 having skill x and tag a
\* and C2 having tags a and b, a request for skills [x] selects C1.
C27_SkillMatch ==
    Selecting(SKILL_MATCH) /\ agents # <<>> =>
        /\ \E i \in DOMAIN agents :
              /\ ret.selected = agents[i]
              /\ \A j \in DOMAIN agents :
                    ClaimedScore(agents[j], ret.context)
                        <= ClaimedScore(agents[i], ret.context)
              /\ \A j \in 1..(i - 1) :
                    ClaimedScore(agents[j], ret.context)
                        < ClaimedScore(agents[i], ret.context)
        /\ ( /\ ret.context = Routing(<<"code-review">>, <<>>)
             /\ {agents[i].name : i \in DOMAIN agents} = {"A", "B"} )
                => ret.selected.name = "A"

\* C27 witness: asked for skill code-review and tags coding and files, with
\* B (no such skill, both tags) listed before A (the skill, one tag),
\* SkillMatch has returned A
C27_Witness ==
    /\ Selecting(SKILL_MATCH)
    /\ ret.context = Routing(<<"code-review">>, <<"coding", "files">>)
    /\ Len(agents) = 2
    /\ agents[1].name = "B"
    /\ ret.selected.name = "A"

\* the weight the claim gives a name under the weights {A: 1, B: 3}
ClaimedWeight(name) == IF name = "B" THEN 3 ELSE 1

\* C28: with weights {A: 1, B: 3}, healthy candidates and counters starting
\* at zero, every pick of the Weighted instance is a candidate whose
\* calls-issued divided by weight is minimal at that moment, the counters
\* count the picks, and over candidates A and B four selections choose B
\* three times and A once.
C28_WeightedShare ==
    LET picks == Picks(WEIGHTED)
        names == {agents[i].name : i \in DOMAIN agents}
    IN  ( /\ _routers[WEIGHTED]._weights = [A |-> 1, B |-> 3]
          /\ agents # <<>>
          /\ \A i \in DOMAIN agents : agents[i].healthy ) =>
            /\ \A i \in DOMAIN picks : \A n \in names :
                  Times(picks, 1, i - 1, picks[i]) * ClaimedWeight(n)
                      <= Times(picks, 1, i - 1, n) * ClaimedWeight(picks[i])
            /\ \A n \in names :
                  Times(picks, 1, Len(picks), n) =
                      IF n \in DOMAIN _routers[WEIGHTED]._counters
                      THEN _routers[WEIGHTED]._counters[n] ELSE 0
            /\ (names = {"A", "B"} /\ Len(picks) >= 4) =>
                  /\ Times(picks, 1, 4, "B") = 3
                  /\ Times(picks, 1, 4, "A") = 1

\* C28 witness: four selections of the Weighted instance with weights
\* {A: 1, B: 3} over the healthy candidates B and A
C28_Witness ==
    /\ _routers[WEIGHTED]._weights = [A |-> 1, B |-> 3]
    /\ Len(agents) = 2
    /\ agents[1].name = "B" /\ agents[2].name = "A"
    /\ agents[1].healthy /\ agents[2].healthy
    /\ Len(Picks(WEIGHTED)) = 4

-----------------------------------------------------------------------------
(* Properties of the AgentRouter, checked under SpecRouter *)

\* the counter a Weighted instance of these routers keeps for a name
CounterOf(routers, name) ==
    IF WEIGHTED \in DOMAIN routers /\ name \in DOMAIN routers[WEIGHTED]._counters
    THEN routers[WEIGHTED]._counters[name]
    ELSE 0

\* C29: the instance of a strategy is created at its first use and kept
\* from then on, whatever strategies are used in between: the round-robin
\* instance exists once a round-robin selection was made and its counter
\* is the number k of round-robin selections made so far, the next
\* round-robin route returns the candidate at position k mod N, and the
\* next weighted route adds one to the counter kept for the agent it picks.
C29_StrategyStatePersists ==
    LET k == Len(Picks(ROUND_ROBIN))
    IN  /\ IF ROUND_ROBIN \in DOMAIN _routers
           THEN _routers[ROUND_ROBIN]._index = k
           ELSE k = 0
        /\ WEIGHTED \notin DOMAIN _routers => Picks(WEIGHTED) = <<>>
        /\ \A context \in RouteContexts, healthy_only \in BOOLEAN :
              LET candidates == prefilter(list_agents(healthy_only), context)
                  N == Len(candidates)
              IN  N > 0 =>
                    /\ \A r \in routed(context, ROUND_ROBIN, healthy_only) :
                          r.selected = candidates[(k % N) + 1]
                    /\ \A r \in routed(context, WEIGHTED, healthy_only) :
                          \A n \in Names :
                              CounterOf(r.routers, n) =
                                  CounterOf(_routers, n)
                                  + (IF n = r.selected.name /\ r.selected.healthy
                                     THEN 1 ELSE 0)

\* C29 witness: two round-robin selections have returned the first and then
\* the second of two agents, while the default strategy is another one
\* whose instance exists as well
C29_Witness ==
    /\ Len(_agents_keys) = 2
    /\ Picks(ROUND_ROBIN) = _agents_keys
    /\ _strategy = FIRST_AVAILABLE
    /\ {ROUND_ROBIN, FIRST_AVAILABLE} \subseteq DOMAIN _routers
    /\ _routers[ROUND_ROBIN]._index = 2

\* the agent has one of the skill ids or tags the context asks for
HasRequested(agent, context) ==
    \/ \E i \in DOMAIN context.skills, j \in DOMAIN skills(agent.adapter) :
          context.skills[i] = skills(agent.adapter)[j].id
    \/ \E i \in DOMAIN context.tags, j \in DOMAIN skills(agent.adapter) :
          context.tags[i] \in skills(agent.adapter)[j].tags

\* C30: when the context names skills or tags and some agent the catalog
\* lists (the healthy ones only, when asked for) has one of them, the agent
\* route returns has one of them, whichever strategy is used.
C30_RoutePrefilters ==
    \A context \in RoutingContexts \ {NoRouting},
       strategy \in STRATEGIES, healthy_only \in BOOLEAN :
        LET listed == list_agents(healthy_only)
        IN  (\E i \in DOMAIN listed : HasRequested(listed[i], context)) =>
                \A r \in routed(context, strategy, healthy_only) :
                    /\ r.selected # None
                    /\ HasRequested(r.selected, context)

\* C30 witness: the catalog lists a healthy codex-cli agent before a healthy
\* claude-code agent, and the first round-robin route, which can only have
\* asked for the skill code-review, has returned the second
C30_Witness ==
    /\ Len(_agents_keys) = 2
    /\ _agents[_agents_keys[1]].adapter = "codex-cli"
    /\ _agents[_agents_keys[2]].adapter = "claude-code"
    /\ \A n \in DOMAIN _agents : _agents[n].healthy
    /\ selections = <<Selected(ROUND_ROBIN, AgentEntry(_agents_keys[2], "claude-code", TRUE))>>

-----------------------------------------------------------------------------
(* Properties of force_transition and of the derived predicates, checked
   under SpecSM *)

\* the text force_transition puts before the reason
FORCED == "[FORCED] "

\* the reason starts with the marker
HasMarker(reason) ==
    /\ Len(reason) >= Len(FORCED)
    /\ SubSeq(reason, 1, Len(FORCED)) = FORCED

\* the record appended last
LastRecord(m) == m.history[Len(m.history)]

\* C33: force_transition succeeds from every state, terminal ones included,
\* and for every target: current_state becomes the target and the record
\* appended goes from the old state to the target with a reason that starts
\* with [FORCED]; a record appended by transition_to starts with [FORCED]
\* only when the reason the caller passed does.
C33_ForceTransition ==
    /\ [](\A target_state \in TaskState, reason \in Reasons :
            LET m == force_transition(sm, target_state, reason)
            IN  /\ m.current_state = target_state
                /\ Len(m.history) = Len(sm.history) + 1
                /\ LastRecord(m).from_state = sm.current_state
                /\ LastRecord(m).to_state = target_state
                /\ HasMarker(LastRecord(m).reason))
    /\ [][/\ ret'.op = "force_transition" =>
                /\ ret'.result = "ok"
                /\ sm'.current_state = ret'.target
                /\ sm'.history = Append(sm.history, LastRecord(sm'))
                /\ LastRecord(sm').from_state = sm.current_state
                /\ LastRecord(sm').to_state = ret'.target
                /\ HasMarker(LastRecord(sm').reason)
           /\ \A target_state \in TaskState, reason \in Reasons :
                (SMTransitionTo(target_state, reason) /\ sm' # sm) =>
                    /\ sm'.history = Append(sm.history, LastRecord(sm'))
                    /\ HasMarker(LastRecord(sm').reason) = HasMarker(reason)]_vars

\* C33 witness: a validated transition whose caller passed a reason without
\* the marker reached COMPLETED, and a forced transition has then left that
\* terminal state for WORKING
C33_Witness ==
    /\ ret.op = "force_transition"
    /\ Len(sm.history) = 3
    /\ sm.history[2].to_state = COMPLETED
    /\ ~HasMarker(sm.history[2].reason)
    /\ sm.current_state = WORKING
    /\ sm.history[3] = StateTransitionRecord(COMPLETED, WORKING, "[FORCED] retry")

\* how many of the three predicates hold
Holding(m) ==
    Cardinality({p \in {"terminal", "active", "waiting"} :
        \/ p = "terminal" /\ is_terminal(m)
        \/ p = "active" /\ is_active(m)
        \/ p = "waiting" /\ is_waiting(m)})

\* C34: is_terminal is true exactly in COMPLETED, FAILED, CANCELED, REJECTED
\* and UNKNOWN, which are exactly the states in which no transition_to can
\* succeed; is_active is true exactly in SUBMITTED and WORKING; is_waiting
\* is true exactly in INPUT_REQUIRED and AUTH_REQUIRED; exactly one of the
\* three holds in every state.
C34_DerivedPredicates ==
    /\ is_terminal(sm) = (sm.current_state \in TableTerminal)
    /\ is_terminal(sm) =
           (\A target_state \in TaskState : ~can_transition_to(sm, target_state))
    /\ is_active(sm) = (sm.current_state \in {SUBMITTED, WORKING})
    /\ is_waiting(sm) = (sm.current_state \in {INPUT_REQUIRED, AUTH_REQUIRED})
    /\ Holding(sm) = 1

\* C34 without the state UNKNOWN: in every other state the predicates agree
\* with the table and exactly one of them holds
C34_ExceptUnknown ==
    sm.current_state # UNKNOWN =>
        /\ is_terminal(sm) =
               (\A target_state \in TaskState :
                    ~can_transition_to(sm, target_state))
        /\ is_active(sm) = (sm.current_state \in {SUBMITTED, WORKING})
        /\ is_waiting(sm) =
               (sm.current_state \in {INPUT_REQUIRED, AUTH_REQUIRED})
        /\ Holding(sm) = 1

-----------------------------------------------------------------------------
(* Properties of the stored tasks, checked under Spec *)

\* the sequence s is the beginning of the sequence t
IsPrefix(s, t) ==
    /\ Len(s) <= Len(t)
    /\ SubSeq(t, 1, Len(s)) = s

C35_DiffersOnlyAfterCancel ==
    \A task_id \in tasks :
        objects[task_id].status.state # state_machines[task_id].current_state
            => /\ objects[task_id].status.state = FAILED
               /\ state_machines[task_id].current_state = CANCELED
               /\ \E e \in DOMAIN execs :
                     /\ execs[e].task_id = task_id
                     /\ execs[e].pc = "done"

C36_RaisesOnlyWhenSwept ==
    \A e \in DOMAIN execs :
        /\ execs[e].pc = "raised" =>
               /\ execs[e].exc = "TaskNotFoundError"
               /\ execs[e].task_id \notin tasks
        /\ execs[e].pc = "done" =>
               IF execs[e].kind = "stream"
               THEN IsFinalStatus(execs[e].events[Len(execs[e].events)])
               ELSE execs[e].returned # "none"

Unanswered(task) ==
    /\ Len(task.history) = 1
    /\ task.artifacts = <<>>

\* the task holds its input message, one agent message and one artifact
\* with the text of that message
Answered(task) ==
    /\ Len(task.history) = 2
    /\ task.history[2].role = AGENT
    /\ task.artifacts = <<Artifact(task.history[2].text)>>

\* a stream of the task has yielded its artifact event and not been resumed
AwaitingCompletion(task_id) ==
    \E e \in DOMAIN execs :
        /\ execs[e].task_id = task_id
        /\ execs[e].kind = "stream"
        /\ execs[e].pc = "yield_artifact"

Changed ==
    {task_id \in DOMAIN objects : objects'[task_id] # objects[task_id]}

\* the tasks whose execution the step starts or moves on, or whose
\* executions it notes as canceled
Executed ==
    {execs'[e].task_id : e \in DOMAIN execs' \ DOMAIN execs}
        \cup {execs[e].task_id : e \in {x \in DOMAIN execs : execs'[x] # execs[x]}}

-----------------------------------------------------------------------------
(* Properties of the chunk loop of execute_task, checked under SpecStream *)

RECURSIVE Concatenation(_)
\* the contents of the chunks, one after the other
Concatenation(chunks) ==
    IF chunks = <<>>
    THEN ""
    ELSE Concatenation(SubSeq(chunks, 1, Len(chunks) - 1))
             \o chunks[Len(chunks)].content

\* execute_task has got past its chunk loop
PastLoop(x) ==
    /\ x.kind = "stream"
    /\ x.provider_outcome = "returned"

-----------------------------------------------------------------------------
(* Termination of the executions, checked under SpecLive *)

\* the states an execution leaves its task in
EndStates == {COMPLETED, FAILED, CANCELED}

=============================================================================
